---- MODULE Spec2Model ----
(***************************************************************************)
(* Model of the form-dashboard front end (src/src/components/Dashboard.js):*)
(* the Dashboard component's state and handlers (client / form selection,  *)
(* fetches, sync and its auto-clear timer), the derived submission view    *)
(* (date filter, CSV export) and the consent-form PDF generator.           *)
(*                                                                         *)
(* Strings whose characters matter (CSV cells, labels) are sequences of    *)
(* one-character strings.  Times are whole minutes since 1970-01-01T00:00Z.*)
(* Pure UI toggles (expanded rows, modals, the view tab) are not modelled. *)
(***************************************************************************)
EXTENDS Integers, Sequences, FiniteSets, TLC

\* ------------------------------------------------------------------ bounds
MaxSyncs == 2
MaxInflight == 2

\* ------------------------------------------------------------ state
VARIABLES
    \* Dashboard component state (useState / useRef)
    selectedClient,     \* 0 = null, else a client id
    forms,              \* sequence of form ids
    selectedForm,       \* 0 = null, else a form id
    submissions,        \* sequence of submission records
    clientStats,        \* [client |-> 0] is {}, else the stats of a client
    loading,
    error,
    startDate,          \* 0 = '', else a day number (value of the date input)
    endDate,
    syncing,
    syncResult,         \* NoResult | success record | error string
    syncResultTimer,    \* the ref: 0 = null, else a timer handle
    \* environment
    timers,             \* handles of the timeouts that are pending
    timerOwner,         \* history: timerOwner[h] = sync invocation that armed h
    syncResultOf,       \* history: invocation that stored syncResult (0: none)
    syncCount,          \* number of handleSync invocations so far
    syncPc,             \* position of the running handleSync
    syncClient,         \* selectedClient captured by the running handleSync
    syncForm,           \* selectedForm captured by the running handleSync
    pending,            \* in-flight requests of the fetch helpers
    \* one run of downloadConsentPDF
    pdfSub,             \* the submission: submission_data, wordpress_url
    pdfPc,              \* "idle", "loop", "await", "done" or "threw"
    pdfEntries,         \* the list the for loop iterates over
    pdfIdx,             \* index of the entry the loop is at
    pdfY,               \* the vertical cursor y
    pdfPage,            \* number of the current page
    pdfDoc,             \* what has been drawn, in drawing order
    pdfInflight,        \* entries whose image fetch is in flight
    pdfFetchLog,        \* history: entries whose fetch was issued, in order
    pdfOutcome,         \* history: <<entry, outcome>> of the settled fetches
    pdfFile,            \* name passed to doc.save, <<>> before
    \* the browser around the submission view
    tzOffset,           \* local time minus UTC, in minutes
    locale,             \* the ambient locale of toLocaleString
    csvFile,            \* the last file downloadCSV delivered
    alertMsg            \* the last message shown by alert()

dashVars == <<selectedClient, forms, selectedForm, submissions, clientStats,
              loading, error, startDate, endDate, syncing, syncResult,
              syncResultTimer, timers, timerOwner, syncResultOf, syncCount,
              syncPc, syncClient, syncForm, pending>>

pdfVars == <<pdfSub, pdfPc, pdfEntries, pdfIdx, pdfY, pdfPage, pdfDoc,
             pdfInflight, pdfFetchLog, pdfOutcome, pdfFile>>

viewVars == <<tzOffset, locale, csvFile, alertMsg>>

vars == <<dashVars, pdfVars, viewVars>>

\* ------------------------------------------------------- the back end
Clients == {1, 2}

\* forms the server holds for a client: client 1 owns forms 1 and 2
FormsOf(c) == IF c = 1 THEN <<1, 2>> ELSE <<>>

Forms == {1, 2}

\* the submission list the server returns for a form
ServerSubs(f) ==
    <<[id |-> f, form_id |-> f, submitted_at |-> 0, submission_data |-> <<>>]>>

StatsOf(c) == [client |-> c]

EmptyStats == [client |-> 0]

\* ------------------------------------------------------- sync result
NoResult == [kind |-> "none", synced |-> 0, skipped |-> 0, msg |-> ""]

\* a response counter may be missing (-1 stands for undefined)
SyncCounts == {-1, 1}

\* the responses tried: each counter present in one and missing in the other
SyncResponses ==
    {r \in [synced : SyncCounts, skipped : SyncCounts] : r.synced # r.skipped}

\* axios errors: a response body (string or object with .error) or a message
AxiosErrors ==
    { [dataKind |-> "string", dataStr |-> "Bad gateway", dataError |-> "", message |-> "Request failed"],
      [dataKind |-> "object", dataStr |-> "", dataError |-> "No credentials", message |-> "Request failed"],
      [dataKind |-> "none", dataStr |-> "", dataError |-> "", message |-> ""] }

getAxiosErrorMessage(err) ==
    IF err.dataKind = "string" /\ err.dataStr # "" THEN err.dataStr
    ELSE IF err.dataKind = "object"
         THEN (IF err.dataError # "" THEN err.dataError ELSE "{}")
    ELSE IF err.message # "" THEN err.message
    ELSE "Unknown error"

\* the response counters stored as they came, without ?? 0
SuccessResultRaw(res) ==
    [kind |-> "ok", synced |-> res.synced, skipped |-> res.skipped, msg |-> ""]

SuccessResult(res) ==
    [kind |-> "ok",
     synced |-> IF res.synced = -1 THEN 0 ELSE res.synced,
     skipped |-> IF res.skipped = -1 THEN 0 ELSE res.skipped,
     msg |-> ""]

ErrorResult(err) ==
    [kind |-> "err", synced |-> 0, skipped |-> 0, msg |-> getAxiosErrorMessage(err)]

\* ------------------------------------------------------------- timers
\* mutant: the pending timeout is not cancelled
clearTimeoutSkipped(ts, h) == ts

\* clearTimeout(h): h is no longer pending
clearTimeout(ts, h) == ts \ {h}

\* mutant: no timeout is armed
setTimeoutDropped(ts, h) == ts

\* setTimeout(callback, 5000) returning handle h: h is pending
setTimeout(ts, h) == ts \cup {h}

\* mutant: the finally block arms the timer and leaves syncing set
SyncFinallyStuck ==
    LET h == Len(timerOwner) + 1 IN
    /\ syncing' = syncing
    /\ timers' = setTimeout(timers, h)
    /\ timerOwner' = Append(timerOwner, syncCount)
    /\ syncResultTimer' = h
    /\ syncPc' = "idle"
    /\ syncClient' = 0
    /\ syncForm' = 0

\* the finally block of handleSync: reset syncing, arm the auto-clear timer;
\* the call returns, so the values it captured are gone
SyncFinally ==
    LET h == Len(timerOwner) + 1 IN
    /\ syncing' = FALSE
    /\ timers' = setTimeout(timers, h)
    /\ timerOwner' = Append(timerOwner, syncCount)
    /\ syncResultTimer' = h
    /\ syncPc' = "idle"
    /\ syncClient' = 0
    /\ syncForm' = 0

\* ------------------------------------------------------------ requests
\* a request may be issued while fewer than MaxInflight are in flight and
\* no request of the same kind for the same object is
CanIssue(p, rs) == rs \cap p = {} /\ Cardinality(p) + Cardinality(rs) <= MaxInflight

Issue(p, rs) == p \cup rs

Settle(p, r) == p \ {r}

\* ------------------------------------------------------------ Init
DashIdle ==
    /\ selectedClient = 0
    /\ forms = <<>>
    /\ selectedForm = 0
    /\ submissions = <<>>
    /\ clientStats = EmptyStats
    /\ loading = FALSE
    /\ error = ""
    /\ startDate = 0
    /\ endDate = 0
    /\ syncing = FALSE
    /\ syncResult = NoResult
    /\ syncResultTimer = 0
    /\ timers = {}
    /\ timerOwner = <<>>
    /\ syncResultOf = 0
    /\ syncCount = 0
    /\ syncPc = "idle"
    /\ syncClient = 0
    /\ syncForm = 0
    /\ pending = {}

\* ------------------------------------------------------------ handlers
\* handleHomeClick
HandleHomeClick ==
    /\ selectedClient # 0
    /\ selectedClient' = 0
    /\ selectedForm' = 0
    /\ submissions' = <<>>
    /\ error' = ""
    /\ UNCHANGED <<forms, clientStats, loading, startDate, endDate, syncing,
                   syncResult, syncResultTimer, timers, timerOwner,
                   syncResultOf, syncCount, syncPc, syncClient, syncForm,
                   pending>>
    /\ UNCHANGED <<pdfVars, viewVars>>

\* handleClientSelect, with the synchronous parts of fetchFormsForClient
\* and fetchClientStats that it calls
HandleClientSelect(c) ==
    /\ CanIssue(pending, {<<"forms", c>>, <<"stats", c>>})
    /\ selectedClient' = c
    /\ error' = ""
    /\ syncResult' = NoResult
    /\ syncResultOf' = 0
    /\ loading' = TRUE
    /\ selectedForm' = 0
    /\ submissions' = <<>>
    /\ pending' = Issue(pending, {<<"forms", c>>, <<"stats", c>>})
    /\ UNCHANGED <<forms, clientStats, startDate, endDate, syncing,
                   syncResultTimer, timers, timerOwner, syncCount, syncPc,
                   syncClient, syncForm>>
    /\ UNCHANGED <<pdfVars, viewVars>>

\* fetchFormsForClient after its await
FormsSettle(c, ok) ==
    /\ <<"forms", c>> \in pending
    /\ pending' = Settle(pending, <<"forms", c>>)
    /\ forms' = IF ok THEN FormsOf(c) ELSE <<>>
    /\ error' = IF ok THEN error ELSE "Failed to load forms"
    /\ loading' = FALSE
    /\ UNCHANGED <<selectedClient, selectedForm, submissions, clientStats,
                   startDate, endDate, syncing, syncResult, syncResultTimer,
                   timers, timerOwner, syncResultOf, syncCount, syncPc,
                   syncClient, syncForm>>
    /\ UNCHANGED <<pdfVars, viewVars>>

\* fetchClientStats after its await
StatsSettle(c, ok) ==
    /\ <<"stats", c>> \in pending
    /\ pending' = Settle(pending, <<"stats", c>>)
    /\ clientStats' = IF ok THEN StatsOf(c) ELSE EmptyStats
    /\ UNCHANGED <<selectedClient, forms, selectedForm, submissions, loading,
                   error, startDate, endDate, syncing, syncResult,
                   syncResultTimer, timers, timerOwner, syncResultOf,
                   syncCount, syncPc, syncClient, syncForm>>
    /\ UNCHANGED <<pdfVars, viewVars>>

\* handleFormSelect, with the synchronous part of fetchSubmissionsForForm
HandleFormSelect(f) ==
    /\ selectedClient # 0
    /\ \E i \in 1..Len(forms) : forms[i] = f
    /\ CanIssue(pending, {<<"subs", f>>})
    /\ selectedForm' = f
    /\ startDate' = 0
    /\ endDate' = 0
    /\ loading' = TRUE
    /\ pending' = Issue(pending, {<<"subs", f>>})
    /\ UNCHANGED <<selectedClient, forms, submissions, clientStats, error,
                   syncing, syncResult, syncResultTimer, timers, timerOwner,
                   syncResultOf, syncCount, syncPc, syncClient, syncForm>>
    /\ UNCHANGED <<pdfVars, viewVars>>

\* what fetchSubmissionsForForm stores when its request settles:
\* "array" (the list), "other" (a body that is no array), "fail"
SubsStored(f, outcome) == IF outcome = "array" THEN ServerSubs(f) ELSE <<>>

\* a failure that leaves the error message as it was
SubsErrorSwallowed(outcome, old) == old

SubsError(outcome, old) ==
    IF outcome = "fail" THEN "Failed to load submissions" ELSE old

SubsOutcomes == {"array", "other", "fail"}

\* fetchSubmissionsForForm after its await
SubsSettle(f, outcome) ==
    /\ <<"subs", f>> \in pending
    /\ pending' = Settle(pending, <<"subs", f>>)
    /\ submissions' = SubsStored(f, outcome)
    /\ error' = SubsError(outcome, error)
    /\ loading' = FALSE
    /\ UNCHANGED <<selectedClient, forms, selectedForm, clientStats,
                   startDate, endDate, syncing, syncResult, syncResultTimer,
                   timers, timerOwner, syncResultOf, syncCount, syncPc,
                   syncClient, syncForm>>
    /\ UNCHANGED <<pdfVars, viewVars>>

\* handleSync up to its first await; the sync button is disabled while syncing
HandleSync ==
    /\ selectedClient # 0
    /\ ~syncing
    /\ syncCount < MaxSyncs
    /\ syncing' = TRUE
    /\ syncResult' = NoResult
    /\ syncResultOf' = 0
    /\ timers' = IF syncResultTimer # 0
                 THEN clearTimeout(timers, syncResultTimer) ELSE timers
    /\ syncCount' = syncCount + 1
    /\ syncPc' = "post"
    /\ syncClient' = selectedClient
    /\ syncForm' = selectedForm
    /\ UNCHANGED <<selectedClient, forms, selectedForm, submissions,
                   clientStats, loading, error, startDate, endDate,
                   syncResultTimer, timerOwner, pending>>
    /\ UNCHANGED <<pdfVars, viewVars>>

\* the sync POST resolved: store the result, start the refresh
SyncPostOk(res) ==
    /\ syncPc = "post"
    /\ syncResult' = SuccessResult(res)
    /\ syncResultOf' = syncCount
    /\ IF syncForm # 0
       THEN /\ loading' = TRUE
            /\ syncPc' = "refreshSubs"
       ELSE /\ loading' = loading
            /\ syncPc' = "refreshStats"
    /\ UNCHANGED <<selectedClient, forms, selectedForm, submissions,
                   clientStats, error, startDate, endDate, syncing,
                   syncResultTimer, timers, timerOwner, syncCount, syncClient,
                   syncForm, pending>>
    /\ UNCHANGED <<pdfVars, viewVars>>

\* the sync POST rejected: catch, then finally
SyncPostFail(err) ==
    /\ syncPc = "post"
    /\ syncResult' = ErrorResult(err)
    /\ syncResultOf' = syncCount
    /\ SyncFinally
    /\ UNCHANGED <<selectedClient, forms, selectedForm, submissions,
                   clientStats, loading, error, startDate, endDate, syncCount,
                   pending>>
    /\ UNCHANGED <<pdfVars, viewVars>>

\* the refresh of the submission list settled; fetchClientStats is called
SyncSubsSettle(outcome) ==
    /\ syncPc = "refreshSubs"
    /\ submissions' = SubsStored(syncForm, outcome)
    /\ error' = SubsError(outcome, error)
    /\ loading' = FALSE
    /\ syncPc' = "refreshStats"
    /\ UNCHANGED <<selectedClient, forms, selectedForm, clientStats,
                   startDate, endDate, syncing, syncResult, syncResultTimer,
                   timers, timerOwner, syncResultOf, syncCount, syncClient,
                   syncForm, pending>>
    /\ UNCHANGED <<pdfVars, viewVars>>

\* the refresh of the client statistics settled; finally
SyncStatsSettle(ok) ==
    /\ syncPc = "refreshStats"
    /\ clientStats' = IF ok THEN StatsOf(syncClient) ELSE EmptyStats
    /\ SyncFinally
    /\ UNCHANGED <<selectedClient, forms, selectedForm, submissions, loading,
                   error, startDate, endDate, syncResult, syncResultOf,
                   syncCount, pending>>
    /\ UNCHANGED <<pdfVars, viewVars>>

\* the auto-clear timeout fires: () => setSyncResult(null)
TimerFire(h) ==
    /\ h \in timers
    /\ timers' = timers \ {h}
    /\ syncResult' = NoResult
    /\ syncResultOf' = 0
    /\ UNCHANGED <<selectedClient, forms, selectedForm, submissions,
                   clientStats, loading, error, startDate, endDate, syncing,
                   syncResultTimer, timerOwner, syncCount, syncPc, syncClient,
                   syncForm, pending>>
    /\ UNCHANGED <<pdfVars, viewVars>>

DashNext ==
    \/ HandleHomeClick
    \/ \E c \in Clients : HandleClientSelect(c)
    \/ \E c \in Clients, ok \in BOOLEAN : FormsSettle(c, ok)
    \/ \E c \in Clients, ok \in BOOLEAN : StatsSettle(c, ok)
    \/ \E f \in Forms : HandleFormSelect(f)
    \/ \E f \in Forms, o \in SubsOutcomes : SubsSettle(f, o)
    \/ HandleSync
    \/ \E res \in SyncResponses : SyncPostOk(res)
    \/ \E err \in AxiosErrors : SyncPostFail(err)
    \/ \E o \in SubsOutcomes : SyncSubsSettle(o)
    \/ \E ok \in BOOLEAN : SyncStatsSettle(ok)
    \/ \E h \in 1..MaxSyncs : TimerFire(h)


\* =================================================================== PDF
\* --------------------------------------------------------- char strings
Str_png == <<".", "p", "n", "g">>
Str_http == <<"h", "t", "t", "p">>
Str_Agreed == <<"A", "g", "r", "e", "e", "d">>
Str_Unknown == <<"U", "n", "k", "n", "o", "w", "n">>
Str_consent_form == <<"c", "o", "n", "s", "e", "n", "t", "-", "f", "o", "r", "m", "-">>
Str_pdf == <<".", "p", "d", "f">>
\* the em-dash U+2014, one character
Str_dash == <<"--">>

\* null / undefined field value (distinct from every string)
NullValue == <<"null">>

\* String(value || '')
StrOrEmpty(v) == IF v = NullValue THEN <<>> ELSE v

endsWith(s, suffix) ==
    /\ Len(s) >= Len(suffix)
    /\ SubSeq(s, Len(s) - Len(suffix) + 1, Len(s)) = suffix

startsWith(s, prefix) ==
    /\ Len(s) >= Len(prefix)
    /\ SubSeq(s, 1, Len(prefix)) = prefix

isSignature(strVal) == endsWith(strVal, Str_png) /\ ~startsWith(strVal, Str_http)

\* str.replace(/\s+/g, '-'): every run of blanks becomes one hyphen
RECURSIVE ReplaceBlankRuns(_, _)
ReplaceBlankRuns(s, inRun) ==
    IF s = <<>> THEN <<>>
    ELSE IF Head(s) = " "
         THEN (IF inRun THEN <<>> ELSE <<"-">>) \o ReplaceBlankRuns(Tail(s), TRUE)
         ELSE <<Head(s)>> \o ReplaceBlankRuns(Tail(s), FALSE)

\* url.replace(/\/$/, ''), '' when the url is absent
StripTrailingSlash(url) ==
    IF url # <<>> /\ url[Len(url)] = "/" THEN SubSeq(url, 1, Len(url) - 1) ELSE url

\* ---------------------------------------------------- consent field order
CONSENT_FIELD_ORDER ==
    << "Company Name (official company name to include on invoices)",
       "Client Name (main point of contact)",
       "Client Email",
       "Client Phone",
       "Street Address",
       "City",
       "State",
       "ZIP Code",
       "Company Main Phone Number",
       "Company Website",
       "Is your physical address different from your mailing address?",
       "Accounting Contact Name",
       "Accounting Contact Email",
       "Accounting Contact Phone Number",
       "Is your accounting address different from your mailing address?",
       "Sales Tax Status",
       "Additional Invoicing Instructions",
       "Payment",
       "Payment to Media Vendors",
       "Production & Hard Costs Billing",
       "Sales Tax",
       "Overdue Invoices",
       "Artificial Intelligence",
       "Termination",
       "Signature" >>

\* Array.prototype.indexOf, 0-based, -1 when absent
RECURSIVE indexOfFrom(_, _, _)
indexOfFrom(arr, x, i) ==
    IF i > Len(arr) THEN -1
    ELSE IF arr[i] = x THEN i - 1
    ELSE indexOfFrom(arr, x, i + 1)

indexOf(arr, x) == indexOfFrom(arr, x, 1)

UnknownPos == 9999

SortPos(key) ==
    LET i == indexOf(CONSENT_FIELD_ORDER, key) IN IF i = -1 THEN UnknownPos ELSE i

\* insertion that puts e in front of the entries of equal SortPos
RECURSIVE InsertSortedUnstable(_, _)
InsertSortedUnstable(sorted, e) ==
    IF sorted = <<>> THEN <<e>>
    ELSE IF SortPos(e[1]) - SortPos(sorted[Len(sorted)][1]) > 0
         THEN Append(sorted, e)
         ELSE Append(InsertSortedUnstable(SubSeq(sorted, 1, Len(sorted) - 1), e),
                     sorted[Len(sorted)])

\* stable insertion of entry e into a list sorted by SortPos
RECURSIVE InsertSorted(_, _)
InsertSorted(sorted, e) ==
    IF sorted = <<>> THEN <<e>>
    ELSE IF SortPos(e[1]) - SortPos(sorted[Len(sorted)][1]) >= 0
         THEN Append(sorted, e)
         ELSE Append(InsertSorted(SubSeq(sorted, 1, Len(sorted) - 1), e),
                     sorted[Len(sorted)])

\* a sort that keeps the entries of the catalogued labels only
RECURSIVE SortEntriesCatalogued(_)
SortEntriesCatalogued(entries) ==
    IF entries = <<>> THEN <<>>
    ELSE IF SortPos(entries[Len(entries)][1]) = UnknownPos
         THEN SortEntriesCatalogued(SubSeq(entries, 1, Len(entries) - 1))
         ELSE InsertSorted(SortEntriesCatalogued(SubSeq(entries, 1, Len(entries) - 1)),
                           entries[Len(entries)])

RECURSIVE SortEntries(_)
SortEntries(entries) ==
    IF entries = <<>> THEN <<>>
    ELSE InsertSorted(SortEntries(SubSeq(entries, 1, Len(entries) - 1)),
                      entries[Len(entries)])

\* a submission_data that is absent (null or undefined)
NullData == <<NullValue>>

\* Object.entries(submissionData || {}): submissionData is a sequence of
\* <<label, value>> in insertion order, or NullData
ObjectEntries(submissionData) ==
    IF submissionData = NullData THEN <<>> ELSE submissionData

sortedConsentEntries(submissionData) == SortEntries(ObjectEntries(submissionData))

\* the characters of the labels of the model
LabelChars(key) ==
    CASE key = CONSENT_FIELD_ORDER[1] ->
          <<"C", "o", "m", "p", "a", "n", "y", " ", "N", "a", "m", "e", " ",
            "(", "o", "f", "f", "i", "c", "i", "a", "l", " ", "c", "o", "m",
            "p", "a", "n", "y", " ", "n", "a", "m", "e", " ", "t", "o", " ",
            "i", "n", "c", "l", "u", "d", "e", " ", "o", "n", " ", "i", "n",
            "v", "o", "i", "c", "e", "s", ")">>
      [] key = CONSENT_FIELD_ORDER[2] ->
          <<"C", "l", "i", "e", "n", "t", " ", "N", "a", "m", "e", " ", "(",
            "m", "a", "i", "n", " ", "p", "o", "i", "n", "t", " ", "o", "f",
            " ", "c", "o", "n", "t", "a", "c", "t", ")">>
      [] key = CONSENT_FIELD_ORDER[3] ->
          <<"C", "l", "i", "e", "n", "t", " ", "E", "m", "a", "i", "l">>
      [] key = CONSENT_FIELD_ORDER[4] ->
          <<"C", "l", "i", "e", "n", "t", " ", "P", "h", "o", "n", "e">>
      [] key = CONSENT_FIELD_ORDER[5] ->
          <<"S", "t", "r", "e", "e", "t", " ", "A", "d", "d", "r", "e", "s",
            "s">>
      [] key = CONSENT_FIELD_ORDER[6] ->
          <<"C", "i", "t", "y">>
      [] key = CONSENT_FIELD_ORDER[7] ->
          <<"S", "t", "a", "t", "e">>
      [] key = CONSENT_FIELD_ORDER[8] ->
          <<"Z", "I", "P", " ", "C", "o", "d", "e">>
      [] key = CONSENT_FIELD_ORDER[9] ->
          <<"C", "o", "m", "p", "a", "n", "y", " ", "M", "a", "i", "n", " ",
            "P", "h", "o", "n", "e", " ", "N", "u", "m", "b", "e", "r">>
      [] key = CONSENT_FIELD_ORDER[10] ->
          <<"C", "o", "m", "p", "a", "n", "y", " ", "W", "e", "b", "s", "i",
            "t", "e">>
      [] key = CONSENT_FIELD_ORDER[11] ->
          <<"I", "s", " ", "y", "o", "u", "r", " ", "p", "h", "y", "s", "i",
            "c", "a", "l", " ", "a", "d", "d", "r", "e", "s", "s", " ", "d",
            "i", "f", "f", "e", "r", "e", "n", "t", " ", "f", "r", "o", "m",
            " ", "y", "o", "u", "r", " ", "m", "a", "i", "l", "i", "n", "g",
            " ", "a", "d", "d", "r", "e", "s", "s", "?">>
      [] key = CONSENT_FIELD_ORDER[12] ->
          <<"A", "c", "c", "o", "u", "n", "t", "i", "n", "g", " ", "C", "o",
            "n", "t", "a", "c", "t", " ", "N", "a", "m", "e">>
      [] key = CONSENT_FIELD_ORDER[13] ->
          <<"A", "c", "c", "o", "u", "n", "t", "i", "n", "g", " ", "C", "o",
            "n", "t", "a", "c", "t", " ", "E", "m", "a", "i", "l">>
      [] key = CONSENT_FIELD_ORDER[14] ->
          <<"A", "c", "c", "o", "u", "n", "t", "i", "n", "g", " ", "C", "o",
            "n", "t", "a", "c", "t", " ", "P", "h", "o", "n", "e", " ", "N",
            "u", "m", "b", "e", "r">>
      [] key = CONSENT_FIELD_ORDER[15] ->
          <<"I", "s", " ", "y", "o", "u", "r", " ", "a", "c", "c", "o", "u",
            "n", "t", "i", "n", "g", " ", "a", "d", "d", "r", "e", "s", "s",
            " ", "d", "i", "f", "f", "e", "r", "e", "n", "t", " ", "f", "r",
            "o", "m", " ", "y", "o", "u", "r", " ", "m", "a", "i", "l", "i",
            "n", "g", " ", "a", "d", "d", "r", "e", "s", "s", "?">>
      [] key = CONSENT_FIELD_ORDER[16] ->
          <<"S", "a", "l", "e", "s", " ", "T", "a", "x", " ", "S", "t", "a",
            "t", "u", "s">>
      [] key = CONSENT_FIELD_ORDER[17] ->
          <<"A", "d", "d", "i", "t", "i", "o", "n", "a", "l", " ", "I", "n",
            "v", "o", "i", "c", "i", "n", "g", " ", "I", "n", "s", "t", "r",
            "u", "c", "t", "i", "o", "n", "s">>
      [] key = CONSENT_FIELD_ORDER[18] ->
          <<"P", "a", "y", "m", "e", "n", "t">>
      [] key = CONSENT_FIELD_ORDER[19] ->
          <<"P", "a", "y", "m", "e", "n", "t", " ", "t", "o", " ", "M", "e",
            "d", "i", "a", " ", "V", "e", "n", "d", "o", "r", "s">>
      [] key = CONSENT_FIELD_ORDER[20] ->
          <<"P", "r", "o", "d", "u", "c", "t", "i", "o", "n", " ", "&", " ",
            "H", "a", "r", "d", " ", "C", "o", "s", "t", "s", " ", "B", "i",
            "l", "l", "i", "n", "g">>
      [] key = CONSENT_FIELD_ORDER[21] ->
          <<"S", "a", "l", "e", "s", " ", "T", "a", "x">>
      [] key = CONSENT_FIELD_ORDER[22] ->
          <<"O", "v", "e", "r", "d", "u", "e", " ", "I", "n", "v", "o", "i",
            "c", "e", "s">>
      [] key = CONSENT_FIELD_ORDER[23] ->
          <<"A", "r", "t", "i", "f", "i", "c", "i", "a", "l", " ", "I", "n",
            "t", "e", "l", "l", "i", "g", "e", "n", "c", "e">>
      [] key = CONSENT_FIELD_ORDER[24] ->
          <<"T", "e", "r", "m", "i", "n", "a", "t", "i", "o", "n">>
      [] key = CONSENT_FIELD_ORDER[25] ->
          <<"S", "i", "g", "n", "a", "t", "u", "r", "e">>
      [] key = "Notes" ->
          <<"N", "o", "t", "e", "s">>
      [] key = "Extra" ->
          <<"E", "x", "t", "r", "a">>
      [] key = "Parent COMPANY NAME" ->
          <<"P", "a", "r", "e", "n", "t", " ", "C", "O", "M", "P", "A", "N",
            "Y", " ", "N", "A", "M", "E">>

UpperCase == <<"A", "B", "C", "D", "E", "F", "G", "H", "I", "J", "K", "L", "M",
               "N", "O", "P", "Q", "R", "S", "T", "U", "V", "W", "X", "Y", "Z">>

LowerCase == <<"a", "b", "c", "d", "e", "f", "g", "h", "i", "j", "k", "l", "m",
               "n", "o", "p", "q", "r", "s", "t", "u", "v", "w", "x", "y", "z">>

\* the label compared as it is written
toLowerCaseSkipped(str) == str

\* String.prototype.toLowerCase
toLowerCase(str) ==
    [i \in 1..Len(str) |->
        IF \E k \in 1..26 : UpperCase[k] = str[i]
        THEN LowerCase[CHOOSE k \in 1..26 : UpperCase[k] = str[i]]
        ELSE str[i]]

\* String.prototype.includes
includes(str, part) ==
    \E i \in 0..(Len(str) - Len(part)) : SubSeq(str, i + 1, i + Len(part)) = part

Str_company_name == <<"c", "o", "m", "p", "a", "n", "y", " ", "n", "a", "m", "e">>

\* k.toLowerCase().includes('company name')
MentionsCompanyName(key) == includes(toLowerCase(LabelChars(key)), Str_company_name)

RECURSIVE FindCompanyKey(_, _)
FindCompanyKey(data, i) ==
    IF i > Len(data) THEN 0
    ELSE IF MentionsCompanyName(data[i][1]) THEN i
    ELSE FindCompanyKey(data, i + 1)

getCompanyName(submissionData) ==
    LET i == IF submissionData = NullData THEN 0
             ELSE FindCompanyKey(submissionData, 1)
    IN
    IF i = 0 THEN Str_Unknown
    ELSE IF StrOrEmpty(submissionData[i][2]) = <<>> THEN Str_Unknown
    ELSE submissionData[i][2]

\* ------------------------------------------------------ page geometry
TitleY == 20
RuleY == 25
SubmittedY == 33
FirstFieldY == 45
LabelAdvance == 6
ImageBlock == 40
ImageHeight == 30
ImageAdvance == 36
LineAdvance == 8
TextLineHeight == 6
TextGap == 4
SafeBottom == 270
TopMargin == 20

\* characters that fit in one wrapped line of width 150
WrapChars == 4

\* doc.splitTextToSize(text, 150).length
splitTextToSize(text) ==
    IF text = <<>> THEN 1 ELSE (Len(text) + WrapChars - 1) \div WrapChars

DrawOp(op, field, page, y, lines) ==
    [op |-> op, field |-> field, page |-> page, y |-> y, lines |-> lines]

\* the value printed as it is, empty or not
RenderedTextRaw(strVal) == strVal

\* strVal || the em-dash
RenderedText(strVal) == IF strVal = <<>> THEN Str_dash ELSE strVal

\* doc.text(lines, 20, y) of the wrapped text
TextOp(field, page, y, text) ==
    [op |-> "text", field |-> field, page |-> page, y |-> y,
     lines |-> splitTextToSize(text), text |-> text]

Str_title ==
    <<"T", "r", "a", "d", "e", "C", "r", "a", "f", "t", " ", "C", "l", "i", "e",
      "n", "t", " ", "C", "o", "n", "s", "e", "n", "t", " ", "F", "o", "r", "m",
      " ", "-", " ">>

\* doc.text(`TradeCraft Client Consent Form - ${companyName}`, 20, 20)
TitleOp(text) ==
    [op |-> "title", field |-> 0, page |-> 1, y |-> TitleY, lines |-> 1, text |-> text]

\* no page break after a field
BreakAfterFieldNever(page, y) == <<page, y>>

\* if (y > 270) { doc.addPage(); y = 20; } as <<page, y>>
BreakAfterField(page, y) ==
    IF y > SafeBottom THEN <<page + 1, TopMargin>> ELSE <<page, y>>

\* if (y + 40 > 270) { doc.addPage(); y = 20; } as <<page, y>>
BreakBeforeImage(page, y) ==
    IF y + ImageBlock > SafeBottom THEN <<page + 1, TopMargin>> ELSE <<page, y>>

\* ------------------------------------------------------- image fetches
\* how fetch(url) -> res.blob() -> FileReader can end:
\*   "reject"      fetch rejects (network error, CORS)
\*   "blobError"   res.blob() rejects
\*   "readerError" FileReader.onerror
\*   "png"         a data URL of the PNG image
\*   "notImage"    fetch resolves with an HTTP error page (fetch does not
\*                 reject on 404): a data URL that is no image
FetchOutcomes == {"reject", "blobError", "readerError", "png", "notImage"}

\* fetchImageAsDataURL: the data URL, or "null" when the try block threw
fetchImageAsDataURL(outcome) ==
    IF outcome \in {"png", "notImage"} THEN outcome ELSE "null"

\* mutant: the fetches of all remaining signature entries are started at once
FetchesIssuedAtAll(entries, i) ==
    {j \in i..Len(entries) : isSignature(StrOrEmpty(entries[j][2]))}

\* the fetches started when the loop reaches signature entry i: that one
\* only, and the loop awaits it
FetchesIssuedAt(entries, i) == {i}

RECURSIVE Ascending(_)
Ascending(S) ==
    IF S = {} THEN <<>>
    ELSE LET m == CHOOSE x \in S : \A z \in S : x <= z
         IN <<m>> \o Ascending(S \ {m})

Range(seq) == {seq[i] : i \in 1..Len(seq)}

\* --------------------------------------------------- consent submissions
MaxPlain == 14
MaxTail == 2

Str_Acme == <<"A", "c", "m", "e">>
Str_sig_png == <<"s", ".", "p", "n", "g">>
Str_http_png == <<"h", "t", "t", "p", ".", "p", "n", "g">>
Str_paragraph == <<"p", "a", "r", "a", "g", "r", "a", "p", "h">>
Str_wp_slash == <<"w", "/">>

TailValues == {Str_sig_png, Str_http_png, Str_Agreed, Str_paragraph, NullValue}

Tails == UNION {[1..n -> TailValues] : n \in 0..MaxTail}

TailKey(j) == IF j = 1 THEN CONSENT_FIELD_ORDER[25] ELSE "Notes"

\* the entries in the order of the report: k one-line fields, then the tail
ReportOrder(k, tail) ==
    [i \in 1..(k + Len(tail)) |->
        IF i <= k THEN <<CONSENT_FIELD_ORDER[i], Str_Acme>>
        ELSE <<TailKey(i - k), tail[i - k]>>]

Reverse(seq) == [i \in 1..Len(seq) |-> seq[Len(seq) + 1 - i]]

\* the plugin stores the fields in some order of its own: here, reversed
ConsentSubmissions ==
    {[submission_data |-> Reverse(ReportOrder(k, tail)), wordpress_url |-> url] :
        k \in 0..MaxPlain, tail \in Tails, url \in {<<>>, Str_wp_slash}}

\* submissions for the field order: catalogued and uncatalogued labels
\* stored in every order, and one submission without submission_data
MaxOrderLen == 4

OrderLabels ==
    <<CONSENT_FIELD_ORDER[1], CONSENT_FIELD_ORDER[3], CONSENT_FIELD_ORDER[25],
      "Notes", "Extra">>

OrderValues == <<Str_Acme, NullValue, Str_sig_png, Str_paragraph, Str_Agreed>>

OrderPicks ==
    {p \in UNION {[1..n -> 1..Len(OrderLabels)] : n \in 0..MaxOrderLen} :
        \A i, j \in 1..Len(p) : i # j => p[i] # p[j]}

OrderSubmissions ==
    {[submission_data |-> [i \in 1..Len(p) |-> <<OrderLabels[p[i]], OrderValues[p[i]]>>],
      wordpress_url |-> Str_wp_slash] : p \in OrderPicks}
    \cup {[submission_data |-> NullData, wordpress_url |-> Str_wp_slash]}

\* submissions for the company name: labels that hold "company name" in
\* some case, one that holds "Company" only, in every stored order
MaxCompanyLen == 4

Str_A_b_c == <<"A", " ", "b", " ", "c">>
Str_B_c == <<"B", " ", "c">>

CompanyLabels ==
    <<CONSENT_FIELD_ORDER[1], "Parent COMPANY NAME", CONSENT_FIELD_ORDER[9],
      CONSENT_FIELD_ORDER[25]>>

CompanyValues(v) == <<v, Str_B_c, Str_Acme, Str_sig_png>>

CompanyPicks ==
    {p \in UNION {[1..n -> 1..Len(CompanyLabels)] : n \in 0..MaxCompanyLen} :
        \A i, j \in 1..Len(p) : i # j => p[i] # p[j]}

CompanySubmissions ==
    {[submission_data |-> [i \in 1..Len(p) |-> <<CompanyLabels[p[i]], CompanyValues(v)[p[i]]>>],
      wordpress_url |-> Str_wp_slash] : p \in CompanyPicks, v \in {Str_A_b_c, <<>>, NullValue}}
    \cup {[submission_data |-> NullData, wordpress_url |-> Str_wp_slash]}

NoSubmission == [submission_data |-> <<>>, wordpress_url |-> <<>>]

PdfIdle ==
    /\ pdfPc = "idle"
    /\ pdfEntries = <<>>
    /\ pdfIdx = 0
    /\ pdfY = 0
    /\ pdfPage = 1
    /\ pdfDoc = <<>>
    /\ pdfInflight = {}
    /\ pdfFetchLog = <<>>
    /\ pdfOutcome = <<>>
    /\ pdfFile = <<>>

wpBase == StripTrailingSlash(pdfSub.wordpress_url)

\* ------------------------------------------------- downloadConsentPDF
\* mutant: the entries are sorted in place, in the stored record
PdfStartInPlace ==
    /\ pdfPc = "idle"
    /\ pdfDoc' = <<TitleOp(Str_title \o getCompanyName(pdfSub.submission_data)),
                   DrawOp("rule", 0, 1, RuleY, 1),
                   DrawOp("submitted", 0, 1, SubmittedY, 1)>>
    /\ pdfEntries' = sortedConsentEntries(pdfSub.submission_data)
    /\ pdfSub' = [pdfSub EXCEPT !.submission_data = sortedConsentEntries(pdfSub.submission_data)]
    /\ pdfIdx' = 1
    /\ pdfY' = FirstFieldY
    /\ pdfPc' = "loop"
    /\ UNCHANGED <<pdfPage, pdfInflight, pdfFetchLog, pdfOutcome, pdfFile>>
    /\ UNCHANGED <<dashVars, viewVars>>

\* up to the for loop: new document, title block, y = 45
PdfStart ==
    /\ pdfPc = "idle"
    /\ pdfDoc' = <<TitleOp(Str_title \o getCompanyName(pdfSub.submission_data)),
                   DrawOp("rule", 0, 1, RuleY, 1),
                   DrawOp("submitted", 0, 1, SubmittedY, 1)>>
    /\ pdfEntries' = sortedConsentEntries(pdfSub.submission_data)
    /\ pdfIdx' = 1
    /\ pdfY' = FirstFieldY
    /\ pdfPc' = "loop"
    /\ UNCHANGED <<pdfSub, pdfPage, pdfInflight, pdfFetchLog, pdfOutcome, pdfFile>>
    /\ UNCHANGED <<dashVars, viewVars>>

\* one loop iteration up to its await (signature with a base URL) or to its end
PdfField ==
    /\ pdfPc = "loop"
    /\ pdfIdx <= Len(pdfEntries)
    /\ LET strVal == StrOrEmpty(pdfEntries[pdfIdx][2])
           label == DrawOp("label", pdfIdx, pdfPage, pdfY, 1)
           y1 == pdfY + LabelAdvance
       IN IF isSignature(strVal) /\ wpBase # <<>>
          THEN LET issue == FetchesIssuedAt(pdfEntries, pdfIdx) \ Range(pdfFetchLog) IN
               /\ pdfDoc' = Append(pdfDoc, label)
               /\ pdfY' = y1
               /\ pdfInflight' = pdfInflight \cup issue
               /\ pdfFetchLog' = pdfFetchLog \o Ascending(issue)
               /\ pdfPc' = "await"
               /\ UNCHANGED <<pdfIdx, pdfPage>>
          ELSE LET lines == splitTextToSize(RenderedText(strVal))
                   body == IF strVal = Str_Agreed
                           THEN DrawOp("agreed", pdfIdx, pdfPage, y1, 1)
                           ELSE TextOp(pdfIdx, pdfPage, y1, RenderedText(strVal))
                   y2 == IF strVal = Str_Agreed
                         THEN y1 + LineAdvance
                         ELSE y1 + lines * TextLineHeight + TextGap
                   brk == BreakAfterField(pdfPage, y2)
               IN /\ pdfDoc' = pdfDoc \o <<label, body>>
                  /\ pdfPage' = brk[1]
                  /\ pdfY' = brk[2]
                  /\ pdfIdx' = pdfIdx + 1
                  /\ UNCHANGED <<pdfInflight, pdfFetchLog, pdfPc>>
    /\ UNCHANGED <<pdfSub, pdfEntries, pdfOutcome, pdfFile>>
    /\ UNCHANGED <<dashVars, viewVars>>

\* the awaited fetchImageAsDataURL settles; the iteration runs to its end.
\* doc.addImage of a data URL that is no image either draws or throws.
PdfFetchSettle(outcome, addImageThrows) ==
    /\ pdfPc = "await"
    /\ pdfIdx \in pdfInflight
    /\ pdfInflight' = pdfInflight \ {pdfIdx}
    /\ pdfOutcome' = Append(pdfOutcome, <<pdfIdx, outcome>>)
    /\ LET dataUrl == fetchImageAsDataURL(outcome) IN
       IF dataUrl # "null"
       THEN LET brk == BreakBeforeImage(pdfPage, pdfY) IN
            IF dataUrl = "notImage" /\ addImageThrows
            THEN /\ pdfPc' = "threw"
                 /\ pdfPage' = brk[1]
                 /\ pdfY' = brk[2]
                 /\ UNCHANGED <<pdfDoc, pdfIdx>>
            ELSE LET end == BreakAfterField(brk[1], brk[2] + ImageAdvance) IN
                 /\ pdfDoc' = Append(pdfDoc, DrawOp("image", pdfIdx, brk[1], brk[2], 1))
                 /\ pdfPage' = end[1]
                 /\ pdfY' = end[2]
                 /\ pdfIdx' = pdfIdx + 1
                 /\ pdfPc' = "loop"
       ELSE LET end == BreakAfterField(pdfPage, pdfY + LineAdvance) IN
            /\ pdfDoc' = Append(pdfDoc, DrawOp("placeholder", pdfIdx, pdfPage, pdfY, 1))
            /\ pdfPage' = end[1]
            /\ pdfY' = end[2]
            /\ pdfIdx' = pdfIdx + 1
            /\ pdfPc' = "loop"
    /\ UNCHANGED <<pdfSub, pdfEntries, pdfFetchLog, pdfFile>>
    /\ UNCHANGED <<dashVars, viewVars>>

\* after the loop: doc.save(`consent-form-${...}.pdf`)
PdfSave ==
    /\ pdfPc = "loop"
    /\ pdfIdx > Len(pdfEntries)
    /\ pdfFile' = Str_consent_form
                    \o ReplaceBlankRuns(getCompanyName(pdfSub.submission_data), FALSE)
                    \o Str_pdf
    /\ pdfPc' = "done"
    /\ UNCHANGED <<pdfSub, pdfEntries, pdfIdx, pdfY, pdfPage, pdfDoc,
                   pdfInflight, pdfFetchLog, pdfOutcome>>
    /\ UNCHANGED <<dashVars, viewVars>>

PdfNext ==
    \/ PdfStart
    \/ PdfField
    \/ \E o \in FetchOutcomes, t \in BOOLEAN : PdfFetchSettle(o, t)
    \/ PdfSave

\* ======================================================= submission view
\* ------------------------------------------------------------ Date
MinutesPerDay == 1440

\* new Date('1970-01-01') and new Date('2099-12-31'), as day numbers
EpochMinDay == 0
EpochMaxDay == 47481

\* new Date('YYYY-MM-DD'): a date-only string is midnight UTC of that day
DateOnly(day) == day * MinutesPerDay

\* the local calendar day an instant falls on
LocalDay(t, tz) == (t + tz) \div MinutesPerDay

\* the instant that a local wall-clock time (day, minute of day) denotes
LocalInstant(day, minute, tz) == day * MinutesPerDay + minute - tz

\* date.setHours(23, 59, 59, 999): the last minute of the date's local day
setHoursEndOfDay(t, tz) ==
    LocalInstant(LocalDay(t, tz), MinutesPerDay - 1, tz)

\* the predicate of submissions.filter in filteredSubmissions
InDateRange(sub, start, end, tz) ==
    LET d == sub.submitted_at
        s == IF start # 0 THEN DateOnly(start) ELSE DateOnly(EpochMinDay)
        e0 == IF end # 0 THEN DateOnly(end) ELSE DateOnly(EpochMaxDay)
        e == setHoursEndOfDay(e0, tz)
    IN d >= s /\ d <= e

RECURSIVE FilterByDate(_, _, _, _)
FilterByDate(subs, start, end, tz) ==
    IF subs = <<>> THEN <<>>
    ELSE (IF InDateRange(Head(subs), start, end, tz) THEN <<Head(subs)>> ELSE <<>>)
         \o FilterByDate(Tail(subs), start, end, tz)

filteredSubmissions ==
    IF startDate = 0 /\ endDate = 0 THEN submissions
    ELSE FilterByDate(submissions, startDate, endDate, tzOffset)

\* ------------------------------------------------------- toLocaleString
DigitChars == <<"0", "1", "2", "3", "4", "5", "6", "7", "8", "9">>

RECURSIVE Digits(_)
Digits(n) ==
    IF n < 10 THEN <<DigitChars[n + 1]>>
    ELSE Digits(n \div 10) \o <<DigitChars[(n % 10) + 1]>>

Pad2(n) == IF n < 10 THEN <<"0">> \o Digits(n) ELSE Digits(n)

\* year, month, day of a day number (proleptic Gregorian calendar)
CivilFromDays(days) ==
    LET z == days + 719468
        era == z \div 146097
        doe == z - era * 146097
        yoe == (doe - doe \div 1460 + doe \div 36524 - doe \div 146096) \div 365
        doy == doe - (365 * yoe + yoe \div 4 - yoe \div 100)
        mp == (5 * doy + 2) \div 153
        d == doy - (153 * mp + 2) \div 5 + 1
        m == IF mp < 10 THEN mp + 3 ELSE mp - 9
        y == yoe + era * 400 + (IF m <= 2 THEN 1 ELSE 0)
    IN [year |-> y, month |-> m, day |-> d]

Locales == {"en-US", "en-GB"}

\* new Date(t).toLocaleString() in the ambient locale and time zone
toLocaleString(t, tz, loc) ==
    LET local == t + tz
        date == CivilFromDays(local \div MinutesPerDay)
        hour == (local % MinutesPerDay) \div 60
        minute == local % 60
        h12 == IF hour % 12 = 0 THEN 12 ELSE hour % 12
    IN IF loc = "en-US"
       THEN Digits(date.month) \o <<"/">> \o Digits(date.day) \o <<"/">>
              \o Digits(date.year) \o <<",", " ">> \o Digits(h12) \o <<":">>
              \o Pad2(minute) \o <<":", "0", "0", " ">>
              \o (IF hour < 12 THEN <<"A", "M">> ELSE <<"P", "M">>)
       ELSE Pad2(date.day) \o <<"/">> \o Pad2(date.month) \o <<"/">>
              \o Digits(date.year) \o <<",", " ">> \o Pad2(hour) \o <<":">>
              \o Pad2(minute) \o <<":", "0", "0">>

\* ------------------------------------------------------------ splitName
IsSpace(c) == c \in {" ", "\t", "\n"}

\* str.trim().split(/\s+/) of a string that is not blank: its tokens
RECURSIVE Tokens(_, _)
Tokens(s, cur) ==
    IF s = <<>> THEN (IF cur = <<>> THEN <<>> ELSE <<cur>>)
    ELSE IF IsSpace(Head(s))
         THEN (IF cur = <<>> THEN <<>> ELSE <<cur>>) \o Tokens(Tail(s), <<>>)
         ELSE Tokens(Tail(s), Append(cur, Head(s)))

\* arr.join(sep) for an array of strings
RECURSIVE Join(_, _)
Join(arr, sep) ==
    IF arr = <<>> THEN <<>>
    ELSE IF Len(arr) = 1 THEN arr[1]
    ELSE arr[1] \o sep \o Join(Tail(arr), sep)

\* the name split in two tokens, the rest dropped
splitNameTwoTokens(fullName) ==
    LET parts == Tokens(StrOrEmpty(fullName), <<>>) IN
    IF parts = <<>> THEN [first |-> <<>>, last |-> <<>>]
    ELSE IF Len(parts) = 1 THEN [first |-> parts[1], last |-> <<>>]
    ELSE [first |-> parts[1], last |-> parts[2]]

splitName(fullName) ==
    LET parts == Tokens(StrOrEmpty(fullName), <<>>) IN
    IF parts = <<>> THEN [first |-> <<>>, last |-> <<>>]
    ELSE IF Len(parts) = 1 THEN [first |-> parts[1], last |-> <<>>]
    ELSE [first |-> parts[1], last |-> Join(Tail(parts), <<" ">>)]

\* ----------------------------------------------------- column detection
Str_Name == <<"N", "a", "m", "e">>
Str_First_Name == <<"F", "i", "r", "s", "t", " ", "N", "a", "m", "e">>
Str_Last_Name == <<"L", "a", "s", "t", " ", "N", "a", "m", "e">>
Str_Submitted == <<"S", "u", "b", "m", "i", "t", "t", "e", "d">>
Str_submissions == <<"s", "u", "b", "m", "i", "s", "s", "i", "o", "n", "s">>
Str_csv == <<".", "c", "s", "v">>

\* key in data, for data a sequence of <<key, value>>
HasKey(data, key) == \E i \in 1..Len(data) : data[i][1] = key

\* data?.[k] ?? '' (a null value and a missing key both give '')
ValueOrEmpty(data, key) ==
    IF HasKey(data, key)
    THEN StrOrEmpty(data[CHOOSE i \in 1..Len(data) : data[i][1] = key][2])
    ELSE <<>>

\* only the first submission is looked at
hasCompoundNameOfFirst(subs) ==
    subs # <<>> /\ HasKey(subs[1].submission_data, Str_Name)

hasCompoundNameOf(subs) ==
    \E i \in 1..Len(subs) : HasKey(subs[i].submission_data, Str_Name)

hasCompoundName == hasCompoundNameOf(submissions)

\* the keys of one submission put in front of keys instead of behind them
RECURSIVE AddKeysInFront(_, _, _)
AddKeysInFront(keys, data, compound) ==
    IF data = <<>> THEN keys
    ELSE LET key == Head(data)[1] IN
         IF (compound /\ key = Str_Name) \/ (\E i \in 1..Len(keys) : keys[i] = key)
         THEN AddKeysInFront(keys, Tail(data), compound)
         ELSE AddKeysInFront(<<key>> \o keys, Tail(data), compound)

\* the keys of one submission appended to keys, first occurrence only
RECURSIVE AddKeys(_, _, _)
AddKeys(keys, data, compound) ==
    IF data = <<>> THEN keys
    ELSE LET key == Head(data)[1] IN
         IF (compound /\ key = Str_Name) \/ (\E i \in 1..Len(keys) : keys[i] = key)
         THEN AddKeys(keys, Tail(data), compound)
         ELSE AddKeys(Append(keys, key), Tail(data), compound)

RECURSIVE CollectKeys(_, _, _)
CollectKeys(keys, subs, compound) ==
    IF subs = <<>> THEN keys
    ELSE CollectKeys(AddKeys(keys, Head(subs).submission_data, compound),
                     Tail(subs), compound)

dataKeysOf(subs) == CollectKeys(<<>>, subs, hasCompoundNameOf(subs))

dataKeys == dataKeysOf(submissions)

\* the table header without the guard for an empty list
columnsOfUnguarded(subs) ==
    IF hasCompoundNameOf(subs)
    THEN <<Str_First_Name, Str_Last_Name>> \o dataKeysOf(subs) \o <<Str_Submitted, <<>>>>
    ELSE dataKeysOf(subs) \o <<Str_Submitted, <<>>>>

\* columns: the table header, the last (empty) one over the row actions
columnsOf(subs) ==
    IF subs = <<>> THEN <<>>
    ELSE IF hasCompoundNameOf(subs)
    THEN <<Str_First_Name, Str_Last_Name>> \o dataKeysOf(subs) \o <<Str_Submitted, <<>>>>
    ELSE dataKeysOf(subs) \o <<Str_Submitted, <<>>>>

columns == columnsOf(submissions)

\* ------------------------------------------------------------ CSV export
\* v.replace(/"/g, '""')
RECURSIVE DoubleQuotes(_)
DoubleQuotes(v) ==
    IF v = <<>> THEN <<>>
    ELSE (IF Head(v) = "\"" THEN <<"\"", "\"">> ELSE <<Head(v)>>)
         \o DoubleQuotes(Tail(v))

\* `"${String(v).replace(/"/g, '""')}"`
CsvCell(v) == <<"\"">> \o DoubleQuotes(v) \o <<"\"">>

csvHeaders ==
    IF hasCompoundName
    THEN <<Str_First_Name, Str_Last_Name>> \o dataKeys \o <<Str_Submitted>>
    ELSE dataKeys \o <<Str_Submitted>>

\* the values of one row, before quoting
CsvVals(sub) ==
    LET data == sub.submission_data
        name == splitName(IF HasKey(data, Str_Name)
                          THEN data[CHOOSE i \in 1..Len(data) : data[i][1] = Str_Name][2]
                          ELSE NullValue)
    IN (IF hasCompoundName THEN <<name.first, name.last>> ELSE <<>>)
       \o [i \in 1..Len(dataKeys) |-> ValueOrEmpty(data, dataKeys[i])]
       \o <<toLocaleString(sub.submitted_at, tzOffset, locale)>>

CsvRow(sub) ==
    LET vals == CsvVals(sub) IN
    Join([i \in 1..Len(vals) |-> CsvCell(vals[i])], <<",">>)

\* the header line: csvHeaders.join(',')
CsvHeaderLine == Join(csvHeaders, <<",">>)

CsvText ==
    Join(<<CsvHeaderLine>> \o [i \in 1..Len(filteredSubmissions) |-> CsvRow(filteredSubmissions[i])],
         <<"\n">>)

Str_Leads == <<"L", "e", "a", "d", "s">>

\* form.form_name of the forms of the back end
FormName(f) == IF f = 1 THEN Str_Leads ELSE <<>>

NoFile == [name |-> <<>>, text |-> <<>>]

Str_No_submissions == "No submissions to download"

\* downloadCSV without its first line: a file is written whatever the list
DownloadCSVUnguarded ==
    /\ selectedForm # 0
    /\ csvFile' = [name |-> (IF FormName(selectedForm) # <<>>
                             THEN FormName(selectedForm)
                             ELSE Str_submissions) \o Str_csv,
                   text |-> CsvText]
    /\ UNCHANGED alertMsg
    /\ UNCHANGED <<tzOffset, locale>>
    /\ UNCHANGED dashVars
    /\ UNCHANGED pdfVars

\* downloadCSV (the CSV button is rendered once a form is selected)
DownloadCSV ==
    /\ selectedForm # 0
    /\ IF filteredSubmissions = <<>>
       THEN /\ alertMsg' = Str_No_submissions
            /\ UNCHANGED csvFile
       ELSE /\ csvFile' = [name |-> (IF FormName(selectedForm) # <<>>
                                     THEN FormName(selectedForm)
                                     ELSE Str_submissions) \o Str_csv,
                           text |-> CsvText]
            /\ UNCHANGED alertMsg
    /\ UNCHANGED <<tzOffset, locale>>
    /\ UNCHANGED dashVars
    /\ UNCHANGED pdfVars

\* the date inputs: onChange={(e) => setStartDate(e.target.value)}
SetStartDate(day) ==
    /\ selectedForm # 0
    /\ startDate' = day
    /\ UNCHANGED <<selectedClient, forms, selectedForm, submissions,
                   clientStats, loading, error, endDate, syncing, syncResult,
                   syncResultTimer, timers, timerOwner, syncResultOf,
                   syncCount, syncPc, syncClient, syncForm, pending>>
    /\ UNCHANGED viewVars
    /\ UNCHANGED pdfVars

SetEndDate(day) ==
    /\ selectedForm # 0
    /\ endDate' = day
    /\ UNCHANGED <<selectedClient, forms, selectedForm, submissions,
                   clientStats, loading, error, startDate, syncing, syncResult,
                   syncResultTimer, timers, timerOwner, syncResultOf,
                   syncCount, syncPc, syncClient, syncForm, pending>>
    /\ UNCHANGED viewVars
    /\ UNCHANGED pdfVars

\* ----------------------------------------------- submissions of the view
MaxSubs == 2

\* 2024-03-10 as a day number
FilterDay == 19792

DateInputs == {0, FilterDay, FilterDay + 1}

\* UTC-5, UTC, UTC+5:30
TzOffsets == {-300, 0, 330}

Str_Email == <<"E", "m", "a", "i", "l">>
Str_Msg == <<"M", "s", "g">>
Str_Co_Inc == <<"C", "o", ",", " ", "I", "n", "c">>
Str_Jane_Q_P == <<"J", "a", "n", "e", " ", "Q", " ", "P">>
Str_said_hi == <<"s", "a", "i", "d", " ", "\"", "h", "i", "\"">>
Str_a == <<"a">>
Str_name == <<"n", "a", "m", "e">>

ViewSub(id, day, minute, tz, data) ==
    [id |-> id, form_id |-> 1, submitted_at |-> LocalInstant(day, minute, tz),
     submission_data |-> data]

\* submissions given by their local wall-clock time in time zone tz;
\* the last one is of the day after the date that stands for no end date
ViewPool(tz) ==
    { ViewSub(1, FilterDay, 1439, tz, <<<<Str_Name, Str_Jane_Q_P>>, <<Str_Email, Str_a>>>>),
      ViewSub(2, FilterDay + 1, 0, tz, <<<<Str_Email, Str_a>>, <<Str_Msg, Str_said_hi>>>>),
      ViewSub(3, FilterDay, 0, tz, <<<<Str_Co_Inc, Str_a>>, <<Str_name, Str_a>>>>),
      ViewSub(4, FilterDay - 1, 1439, tz, <<<<Str_Name, NullValue>>, <<Str_Msg, Str_a>>>>),
      ViewSub(5, FilterDay, 720, tz, <<<<Str_Msg, NullValue>>>>),
      ViewSub(6, EpochMaxDay + 1, 720, tz, <<<<Str_Email, Str_a>>>>) }

\* names for splitName: every string of up to MaxNameLen characters of
\* two letters, the space and the tab, an absent name, and two full names
MaxNameLen == 4

Str_Jane == <<"J", "a", "n", "e">>
Str_Jane_Q_Public ==
    <<"J", "a", "n", "e", " ", "Q", " ", "P", "u", "b", "l", "i", "c">>

NameChars == {"a", "b", " ", "\t"}

NameInputs ==
    UNION {[1..n -> NameChars] : n \in 0..MaxNameLen}
    \cup {NullValue, Str_Jane, Str_Jane_Q_Public}

NameLists(tz) ==
    {<<ViewSub(1, FilterDay, 720, tz, <<<<Str_Name, name>>, <<Str_Email, Str_a>>>>)>> :
        name \in NameInputs}

ViewLists(tz) ==
    {l \in UNION {[1..n -> ViewPool(tz)] : n \in 0..MaxSubs} :
        \A i, j \in 1..Len(l) : i # j => l[i].id # l[j].id}

ViewIdle ==
    /\ tzOffset = 0
    /\ locale = "en-US"
    /\ csvFile = NoFile
    /\ alertMsg = ""

ViewNext ==
    \/ \E d \in DateInputs : SetStartDate(d)
    \/ \E d \in DateInputs : SetEndDate(d)
    \/ DownloadCSV

\* ======================================================== specifications
\* the Dashboard component: selections, fetches, sync and its timer
DashInit == DashIdle /\ PdfIdle /\ ViewIdle /\ pdfSub = NoSubmission

DashSpec == DashInit /\ [][DashNext]_vars

\* one PDF generation for any of the consent submissions
PdfInit == DashIdle /\ PdfIdle /\ ViewIdle /\ pdfSub \in ConsentSubmissions

PdfSpec == PdfInit /\ [][PdfNext]_vars

\* one PDF generation for any stored order of the fields
OrderInit == DashIdle /\ PdfIdle /\ ViewIdle /\ pdfSub \in OrderSubmissions

OrderSpec == OrderInit /\ [][PdfNext]_vars

\* one PDF generation for any place of the company name among the fields
CompanyInit == DashIdle /\ PdfIdle /\ ViewIdle /\ pdfSub \in CompanySubmissions

CompanySpec == CompanyInit /\ [][PdfNext]_vars

\* the submission table of a selected form whose list has been fetched
ViewInit ==
    /\ selectedClient = 1
    /\ forms = FormsOf(1)
    /\ selectedForm \in Forms
    /\ tzOffset \in TzOffsets
    /\ locale \in Locales
    /\ submissions \in ViewLists(tzOffset)
    /\ clientStats = StatsOf(1)
    /\ loading = FALSE
    /\ error = ""
    /\ startDate = 0
    /\ endDate = 0
    /\ syncing = FALSE
    /\ syncResult = NoResult
    /\ syncResultTimer = 0
    /\ timers = {}
    /\ timerOwner = <<>>
    /\ syncResultOf = 0
    /\ syncCount = 0
    /\ syncPc = "idle"
    /\ syncClient = 0
    /\ syncForm = 0
    /\ pending = {}
    /\ csvFile = NoFile
    /\ alertMsg = ""
    /\ PdfIdle
    /\ pdfSub = NoSubmission

ViewSpec == ViewInit /\ [][ViewNext]_vars

\* the table and the export of one submission, for any name it may hold
NameInit ==
    /\ selectedClient = 1
    /\ forms = FormsOf(1)
    /\ selectedForm = 1
    /\ tzOffset = 0
    /\ locale = "en-US"
    /\ submissions \in NameLists(tzOffset)
    /\ clientStats = StatsOf(1)
    /\ loading = FALSE
    /\ error = ""
    /\ startDate = 0
    /\ endDate = 0
    /\ syncing = FALSE
    /\ syncResult = NoResult
    /\ syncResultTimer = 0
    /\ timers = {}
    /\ timerOwner = <<>>
    /\ syncResultOf = 0
    /\ syncCount = 0
    /\ syncPc = "idle"
    /\ syncClient = 0
    /\ syncForm = 0
    /\ pending = {}
    /\ csvFile = NoFile
    /\ alertMsg = ""
    /\ PdfIdle
    /\ pdfSub = NoSubmission

NameSpec == NameInit /\ [][ViewNext]_vars

\* lists of the three submissions of consecutive days, in every order
RecordLists(tz) ==
    {l \in ViewLists(tz) : \A i \in 1..Len(l) : l[i].id \in {1, 2, 4}}

\* consent submissions of two fields stored in another order than the report's
RecordSubmissions ==
    {s \in OrderSubmissions :
        /\ s.submission_data # NullData
        /\ Len(s.submission_data) = 2
        /\ sortedConsentEntries(s.submission_data) # s.submission_data}

\* the table of a form, its export and the PDF of a consent submission
RecordInit ==
    /\ selectedClient = 1
    /\ forms = FormsOf(1)
    /\ selectedForm = 1
    /\ tzOffset = 0
    /\ locale = "en-US"
    /\ submissions \in RecordLists(tzOffset)
    /\ clientStats = StatsOf(1)
    /\ loading = FALSE
    /\ error = ""
    /\ startDate = 0
    /\ endDate = 0
    /\ syncing = FALSE
    /\ syncResult = NoResult
    /\ syncResultTimer = 0
    /\ timers = {}
    /\ timerOwner = <<>>
    /\ syncResultOf = 0
    /\ syncCount = 0
    /\ syncPc = "idle"
    /\ syncClient = 0
    /\ syncForm = 0
    /\ pending = {}
    /\ csvFile = NoFile
    /\ alertMsg = ""
    /\ PdfIdle
    /\ pdfSub \in RecordSubmissions

RecordNext ==
    \/ \E d \in DateInputs : SetStartDate(d)
    \/ \E d \in DateInputs : SetEndDate(d)
    \/ DownloadCSV
    \/ PdfStart
    \/ PdfField
    \/ \E o \in FetchOutcomes, t \in BOOLEAN : PdfFetchSettle(o, t)
    \/ PdfSave

RecordSpec == RecordInit /\ [][RecordNext]_vars

\* the timer callback is run by the browser once its delay has elapsed
FairDashSpec ==
    /\ DashSpec
    /\ WF_vars(\E h \in timers : TimerFire(h))

\* ================================================================ claims
SignatureEntries ==
    {i \in 1..Len(pdfEntries) : isSignature(StrOrEmpty(pdfEntries[i][2]))}

Drawn(op, field) ==
    \E k \in 1..Len(pdfDoc) : pdfDoc[k].op = op /\ pdfDoc[k].field = field

\* C1: a PDF generated for a submission with a signature field and no
\* wordpress_url completes without throwing and contains the line
\* "[Signature image unavailable]" for that field.
C1_FallbackWithoutBaseUrl ==
    wpBase = <<>> =>
        /\ pdfPc # "threw"
        /\ pdfPc = "done" => \A i \in SignatureEntries : Drawn("placeholder", i)

\* C2: every signature field whose image fetch failed (rejected, or gave
\* something that is no embeddable image) gets the placeholder line, and no
\* fetch outcome aborts the generation before doc.save.
C2_FailedFetchGivesPlaceholder ==
    /\ pdfPc # "threw"
    /\ \A k \in 1..Len(pdfOutcome) :
          pdfOutcome[k][2] # "png" => Drawn("placeholder", pdfOutcome[k][1])

\* C3: at most one auto-clear timer is pending at any time, and handleSync
\* at once empties the displayed result and cancels the timer armed before.
C3_SingleTimer ==
    /\ [](/\ Cardinality(timers) <= 1
          /\ timers \subseteq {syncResultTimer}
          /\ syncing => timers = {})
    /\ [][HandleSync => (syncResult' = NoResult /\ timers' = {})]_vars

C3_Witness ==
    syncCount = 2 /\ syncing /\ Len(timerOwner) = 1 /\ timers = {}

\* C4: once a second sync has started, the result of the first is never
\* displayed again, and a timer never clears the result of an invocation
\* other than the one that armed it.
C4_OnlyLatestResult ==
    /\ [](syncResult # NoResult => syncResultOf = syncCount)
    /\ [][\A h \in timers :
            (TimerFire(h) /\ syncResult # NoResult) => timerOwner[h] = syncResultOf]_vars

C4_Witness ==
    syncCount = 2 /\ syncResultOf = 2 /\ timers = {2}

\* C5: whenever a sync result is displayed, its auto-clear timer is pending:
\* the countdown was armed at the moment the result was stored.
C5_TimerArmedWhenStored ==
    syncResult # NoResult => syncResultTimer \in timers

\* C6: a sync result displayed after its invocation has settled is
\* eventually cleared (by the timer, unless something clears it earlier).
C6_ResultEventuallyCleared ==
    (syncResult # NoResult /\ ~syncing) ~> (syncResult = NoResult)

C6_Witness ==
    syncResult.kind = "err" /\ ~syncing /\ timers # {}

RECURSIVE OnLocalDay(_, _, _)
OnLocalDay(subs, day, tz) ==
    IF subs = <<>> THEN <<>>
    ELSE (IF LocalDay(Head(subs).submitted_at, tz) = day THEN <<Head(subs)>> ELSE <<>>)
         \o OnLocalDay(Tail(subs), day, tz)

\* C7: in every time zone, startDate = endDate = D passes exactly the
\* submissions whose local timestamp lies on calendar day D.
C7_SameDayIsLocalDay ==
    (startDate # 0 /\ startDate = endDate) =>
        filteredSubmissions = OnLocalDay(submissions, startDate, tzOffset)

\* strict reader of fully quoted CSV: every field starts and ends with a
\* double quote, and a double quote inside a field appears doubled
RECURSIVE QuotedCsv(_, _)
QuotedCsv(text, st) ==
    IF text = <<>> THEN st = "closed"
    ELSE LET c == Head(text) IN
         CASE st = "start" -> c = "\"" /\ QuotedCsv(Tail(text), "open")
           [] st = "open" -> QuotedCsv(Tail(text), IF c = "\"" THEN "closed" ELSE "open")
           [] OTHER -> \/ c = "\"" /\ QuotedCsv(Tail(text), "open")
                       \/ c \in {",", "\n"} /\ QuotedCsv(Tail(text), "start")

\* C8: every field of the CSV output, in the header row and in the data
\* rows, is wrapped in double quotes, with inner double quotes doubled.
C8_EveryFieldQuoted ==
    csvFile # NoFile => QuotedCsv(csvFile.text, "start")

\* C9: a field's label and its image, placeholder or acknowledgment line
\* are on the same page, and no image extends past the safe bottom margin.
C9_FieldOnOnePage ==
    \A a, b \in 1..Len(pdfDoc) :
        /\ (pdfDoc[a].op = "label" /\ pdfDoc[b].field = pdfDoc[a].field
              /\ pdfDoc[b].op \in {"image", "placeholder", "agreed"})
           => pdfDoc[b].page = pdfDoc[a].page
        /\ pdfDoc[a].op = "image" => pdfDoc[a].y + ImageHeight <= SafeBottom

Settled(i) == \E k \in 1..Len(pdfOutcome) : pdfOutcome[k][1] = i

\* C10: the image fetches of one generation are issued in field order and
\* one at a time: a fetch starts only when the fetch of every earlier
\* signature field has settled, so at most one is in flight.
C10_SequentialFetches ==
    /\ Cardinality(pdfInflight) <= 1
    /\ \A i \in pdfInflight : i = pdfIdx /\ pdfPc = "await"
    /\ \A a, b \in 1..Len(pdfFetchLog) :
          a < b => pdfFetchLog[a] < pdfFetchLog[b] /\ Settled(pdfFetchLog[a])
    /\ \A i \in Range(pdfFetchLog) :
          \A j \in SignatureEntries : j < i => j \in Range(pdfFetchLog)

C10_Witness ==
    Len(pdfFetchLog) = 2 /\ pdfInflight # {} /\ Len(pdfOutcome) = 1

\* a counter of the response, 0 when the response has none
CountOrZero(n) == IF n = -1 THEN 0 ELSE n

\* the texts an error carries for a person to read
ReadableTexts(err) ==
    IF err.dataKind = "string" THEN {err.dataStr}
    ELSE IF err.dataKind = "object" THEN {err.dataError}
    ELSE IF err.message # "" THEN {err.message}
    ELSE {"Unknown error"}

Occurrences(key) ==
    UNION {{<<i, j>> : j \in {k \in 1..Len(submissions[i].submission_data) :
                                submissions[i].submission_data[k][1] = key}} :
           i \in 1..Len(submissions)}

AllLabels ==
    UNION {{submissions[i].submission_data[j][1] :
                j \in 1..Len(submissions[i].submission_data)} :
           i \in 1..Len(submissions)}

ScannedBefore(p, q) == p[1] < q[1] \/ (p[1] = q[1] /\ p[2] < q[2])

FirstSeen(key) ==
    CHOOSE p \in Occurrences(key) :
        \A q \in Occurrences(key) : p = q \/ ScannedBefore(p, q)

ExcludedLabels == IF hasCompoundName THEN {Str_Name} ELSE {}

\* C12: dataKeys holds every label that is not excluded exactly once, in
\* the order in which the labels are first met when the submissions are
\* scanned in list order and the keys of each in their stored order.
C12_DataKeysFirstSeenOrder ==
    /\ Range(dataKeys) = AllLabels \ ExcludedLabels
    /\ \A a, b \in 1..Len(dataKeys) :
          a < b => /\ dataKeys[a] # dataKeys[b]
                   /\ ScannedBefore(FirstSeen(dataKeys[a]), FirstSeen(dataKeys[b]))

\* two submissions share a label, and first-seen order is not alphabetical
C12_Witness ==
    /\ Len(submissions) = 2
    /\ dataKeys = <<Str_Msg, Str_Email>>
    /\ \A i \in 1..2 : HasKey(submissions[i].submission_data, Str_Msg)

\* C13: hasCompoundName is true exactly when some submission has the key
\* "Name"; when it is true "Name" is not in dataKeys, and when it is false
\* dataKeys leaves out no label.
C13_CompoundNameExcluded ==
    /\ hasCompoundName <=> <<"N", "a", "m", "e">> \in AllLabels
    /\ hasCompoundName => <<"N", "a", "m", "e">> \notin Range(dataKeys)
    /\ ~hasCompoundName => Range(dataKeys) = AllLabels

\* the key "Name" is met in the second submission only, after keys of the first
C13_Witness ==
    /\ Len(submissions) = 2
    /\ ~HasKey(submissions[1].submission_data, Str_Name)
    /\ HasKey(submissions[2].submission_data, Str_Name)
    /\ hasCompoundName
    /\ Len(dataKeys) = 2

\* C14: the display columns are "First Name", "Last Name", the dataKeys,
\* "Submitted" and an empty last column when hasCompoundName, and the
\* dataKeys, "Submitted" and the empty column otherwise; with no submission
\* hasCompoundName is false and dataKeys and columns are both empty.
C14_Columns ==
    IF Len(submissions) = 0
    THEN ~hasCompoundName /\ dataKeys = <<>> /\ columns = <<>>
    ELSE LET lead == IF hasCompoundName THEN 2 ELSE 0 IN
         /\ Len(columns) = lead + Len(dataKeys) + 2
         /\ hasCompoundName => columns[1] = Str_First_Name /\ columns[2] = Str_Last_Name
         /\ \A i \in 1..Len(dataKeys) : columns[lead + i] = dataKeys[i]
         /\ columns[Len(columns) - 1] = Str_Submitted
         /\ columns[Len(columns)] = <<>>

C14_Witness ==
    hasCompoundName /\ Len(dataKeys) = 2 /\ Len(columns) = 6

C14_WitnessEmpty ==
    submissions = <<>> /\ columns = <<>>

\* a reader of CSV text: a comma or a line break outside double quotes
\* ends a field or a record; a field wrapped in double quotes stands for
\* its inside, with a doubled quote read as one
OutsideQuotes(text, k) ==
    Cardinality({q \in 1..(k - 1) : text[q] = "\""}) % 2 = 0

Ordered(S) ==
    [i \in 1..Cardinality(S) |-> CHOOSE x \in S : Cardinality({y \in S : y < x}) = i - 1]

\* the <<first, last>> positions of the pieces of text[lo..hi] between separators
Pieces(text, lo, hi, sep) ==
    LET cuts == <<lo - 1>>
                \o Ordered({k \in lo..hi : text[k] = sep /\ OutsideQuotes(text, k)})
                \o <<hi + 1>>
    IN [i \in 1..(Len(cuts) - 1) |-> <<cuts[i] + 1, cuts[i + 1] - 1>>]

RECURSIVE SingleQuotes(_)
SingleQuotes(v) ==
    IF Len(v) < 2 THEN v
    ELSE IF v[1] = "\"" /\ v[2] = "\"" THEN <<"\"">> \o SingleQuotes(SubSeq(v, 3, Len(v)))
    ELSE <<v[1]>> \o SingleQuotes(Tail(v))

FieldText(raw) ==
    IF Len(raw) >= 2 /\ raw[1] = "\"" /\ raw[Len(raw)] = "\""
    THEN SingleQuotes(SubSeq(raw, 2, Len(raw) - 1))
    ELSE raw

CsvRecords(text) ==
    LET lines == Pieces(text, 1, Len(text), "\n") IN
    [r \in 1..Len(lines) |->
        LET fields == Pieces(text, lines[r][1], lines[r][2], ",") IN
        [f \in 1..Len(fields) |-> FieldText(SubSeq(text, fields[f][1], fields[f][2]))]]

HeaderFields ==
    (IF hasCompoundName THEN <<Str_First_Name, Str_Last_Name>> ELSE <<>>)
    \o dataKeys \o <<Str_Submitted>>

RowFields(sub) ==
    LET data == sub.submission_data
        full == IF HasKey(data, Str_Name)
                THEN data[CHOOSE i \in 1..Len(data) : data[i][1] = Str_Name][2]
                ELSE NullValue
    IN (IF hasCompoundName THEN <<splitName(full).first, splitName(full).last>> ELSE <<>>)
       \o [i \in 1..Len(dataKeys) |-> ValueOrEmpty(data, dataKeys[i])]
       \o <<toLocaleString(sub.submitted_at, tzOffset, locale)>>

\* C15: the records of the CSV file are the header, "First Name" and "Last
\* Name" (when compound), the dataKeys and "Submitted", then one record per
\* filtered submission in filtered order, with as many fields as the header:
\* the split name (when compound), the value or the empty string for each
\* key of dataKeys, and the timestamp.
C15_CsvRecords ==
    [][(DownloadCSV /\ filteredSubmissions # <<>>) =>
         LET recs == CsvRecords(csvFile'.text) IN
         /\ Len(recs) = 1 + Len(filteredSubmissions)
         /\ recs[1] = HeaderFields
         /\ \A i \in 1..Len(filteredSubmissions) :
               /\ recs[1 + i] = RowFields(filteredSubmissions[i])
               /\ Len(recs[1 + i]) = Len(recs[1])]_vars

\* the same, for label sets without comma, quote or line break
C15_PlainLabels ==
    [][(DownloadCSV /\ filteredSubmissions # <<>>
          /\ \A k \in 1..Len(dataKeys) : \A j \in 1..Len(dataKeys[k]) :
                dataKeys[k][j] \notin {",", "\"", "\n"}) =>
         LET recs == CsvRecords(csvFile'.text) IN
         /\ Len(recs) = 1 + Len(filteredSubmissions)
         /\ recs[1] = HeaderFields
         /\ \A i \in 1..Len(filteredSubmissions) :
               /\ recs[1 + i] = RowFields(filteredSubmissions[i])
               /\ Len(recs[1 + i]) = Len(recs[1])]_vars

\* C16: an export of an empty filtered list tells the user that there is
\* nothing to download and writes no file; nothing else changes.
C16_EmptyExportIsNoOp ==
    [][(DownloadCSV /\ Len(filteredSubmissions) = 0) =>
          /\ alertMsg' = "No submissions to download"
          /\ csvFile' = csvFile
          /\ UNCHANGED <<dashVars, pdfVars, tzOffset, locale>>]_vars

\* the list is not empty but the date filter leaves nothing of it
C16_Witness ==
    /\ alertMsg = "No submissions to download"
    /\ csvFile = NoFile
    /\ submissions # <<>>
    /\ filteredSubmissions = <<>>

Passes(sub) == \E i \in 1..Len(filteredSubmissions) : filteredSubmissions[i] = sub

\* C17: a date bound that is not given does not bound: with an end date
\* only, every submission up to the end of that local day passes; with a
\* start date only, every submission from the start of that local day on
\* passes; with neither, the filtered list is the list.
C17_AbsentBoundUnbounded ==
    /\ (startDate = 0 /\ endDate # 0) =>
          \A i \in 1..Len(submissions) :
              submissions[i].submitted_at <= LocalInstant(endDate, MinutesPerDay - 1, tzOffset)
                  => Passes(submissions[i])
    /\ (startDate # 0 /\ endDate = 0) =>
          \A i \in 1..Len(submissions) :
              submissions[i].submitted_at >= LocalInstant(startDate, 0, tzOffset)
                  => Passes(submissions[i])
    /\ (startDate = 0 /\ endDate = 0) => filteredSubmissions = submissions

Catalogued(key) == \E i \in 1..Len(CONSENT_FIELD_ORDER) : CONSENT_FIELD_ORDER[i] = key

CatalogueIndex(key) ==
    CHOOSE i \in 1..Len(CONSENT_FIELD_ORDER) : CONSENT_FIELD_ORDER[i] = key

StoredData == IF pdfSub.submission_data = NullData THEN <<>> ELSE pdfSub.submission_data

StoredIndex(key) == CHOOSE i \in 1..Len(StoredData) : StoredData[i][1] = key

\* C18: in the ordered entries every catalogued label comes before every
\* label that is not catalogued, catalogued labels are in the order of the
\* catalogue, and two labels that are not catalogued are in the order in
\* which the submission stores them.
C18_ConsentOrder ==
    pdfPc # "idle" =>
        \A a, b \in 1..Len(pdfEntries) :
            a < b =>
                LET x == pdfEntries[a][1]
                    y == pdfEntries[b][1]
                IN /\ Catalogued(y) => Catalogued(x)
                   /\ (Catalogued(x) /\ Catalogued(y)) => CatalogueIndex(x) < CatalogueIndex(y)
                   /\ (~Catalogued(x) /\ ~Catalogued(y)) => StoredIndex(x) < StoredIndex(y)

\* two uncatalogued labels, stored "Notes" then "Extra", around catalogued
\* labels stored against the order of the catalogue
C18_Witness ==
    /\ pdfPc # "idle"
    /\ Len(pdfEntries) = 4
    /\ StoredData[1][1] = "Notes"
    /\ StoredData[2][1] = CONSENT_FIELD_ORDER[25]
    /\ StoredData[3][1] = "Extra"
    /\ StoredData[4][1] = CONSENT_FIELD_ORDER[1]
    /\ pdfEntries[3][1] = "Notes"
    /\ pdfEntries[4][1] = "Extra"

\* C19: the ordered entries are the entries of the submission, each one
\* once and with its value, whether its label is catalogued or not; a
\* submission without submission_data gives no entries and no failure.
C19_ConsentPermutation ==
    pdfPc # "idle" =>
        /\ Len(pdfEntries) = Len(StoredData)
        /\ \A i \in 1..Len(StoredData) :
              Cardinality({k \in 1..Len(pdfEntries) : pdfEntries[k] = StoredData[i]}) = 1
        /\ pdfSub.submission_data = NullData => (pdfEntries = <<>> /\ pdfPc # "threw")

C19_Witness ==
    /\ pdfPc = "done"
    /\ Len(pdfEntries) = 4
    /\ \E k \in 1..4 : pdfEntries[k] = <<"Extra", Str_Agreed>>
    /\ \E k \in 1..4 : pdfEntries[k] = <<"Notes", Str_paragraph>>

C19_WitnessAbsent ==
    pdfSub.submission_data = NullData /\ pdfPc = "done" /\ pdfFile # <<>>

\* what the claim expects in the state after the fetch for form f settled
ListStored(f, outcome) ==
    /\ outcome = "array" => submissions' = ServerSubs(f)
    /\ outcome = "other" => submissions' = <<>>
    /\ outcome = "fail" => (submissions' = <<>> /\ error' # "")

\* C20: when a fetch of the submissions of a form settles, the stored list
\* is the response if that is an array and the empty list if it is not; if
\* the fetch fails the list is empty and an error message is set.
C20_SubmissionFetchStored ==
    [][/\ \A f \in Forms, o \in SubsOutcomes : SubsSettle(f, o) => ListStored(f, o)
       /\ \A o \in SubsOutcomes : SyncSubsSettle(o) => ListStored(syncForm, o)]_vars

\* a failed fetch has left the empty list and its message
C20_Witness ==
    /\ selectedForm # 0
    /\ submissions = <<>>
    /\ error = "Failed to load submissions"
    /\ ~loading
    /\ pending = {}

RowsOf(i) == {k \in 1..Len(pdfDoc) : pdfDoc[k].field = i}

\* C21: every entry whose iteration has ended has one row in the document,
\* its label followed by one of: the image, the "[Signature image
\* unavailable]" line, the acknowledgment line when the value is "Agreed",
\* the wrapped value; an empty or missing value is printed as one em-dash;
\* a finished document has a row for every entry.
C21_OneRowPerEntry ==
    /\ pdfPc = "done" => pdfIdx = Len(pdfEntries) + 1
    /\ \A i \in 1..Len(pdfEntries) :
          i < pdfIdx =>
              LET v == StrOrEmpty(pdfEntries[i][2]) IN
              /\ Cardinality(RowsOf(i)) = 2
              /\ \E k \in RowsOf(i) :
                    /\ pdfDoc[k].op = "label"
                    /\ k + 1 \in RowsOf(i)
                    /\ pdfDoc[k + 1].op \in {"image", "placeholder", "agreed", "text"}
                    /\ pdfDoc[k + 1].op = "agreed" <=> v = Str_Agreed
                    /\ pdfDoc[k + 1].op \in {"image", "placeholder"} =>
                          (isSignature(v) /\ wpBase # <<>>)
                    /\ pdfDoc[k + 1].op = "text" =>
                          /\ pdfDoc[k + 1].text = (IF v = <<>> THEN <<"--">> ELSE v)
                          /\ v = <<>> => pdfDoc[k + 1].lines = 1

\* a finished document with an em-dash row for a missing value and an
\* acknowledgment row
C21_Witness ==
    /\ pdfPc = "done"
    /\ \E k \in 1..Len(pdfDoc) : pdfDoc[k].op = "text" /\ pdfDoc[k].text = Str_dash
    /\ \E k \in 1..Len(pdfDoc) : pdfDoc[k].op = "agreed"

\* the stored fields whose label holds "company name", in any case
CompanyFields ==
    {i \in 1..Len(StoredData) :
        \E at \in 1..(Len(LabelChars(StoredData[i][1])) - 11) :
            LET part == SubSeq(LabelChars(StoredData[i][1]), at, at + 11) IN
            \A k \in 1..12 :
                  \/ part[k] = Str_company_name[k]
                  \/ \E u \in 1..26 : UpperCase[u] = part[k] /\ LowerCase[u] = Str_company_name[k]}

FirstCompanyValue ==
    StrOrEmpty(StoredData[CHOOSE i \in CompanyFields : \A j \in CompanyFields : i <= j][2])

Hyphened(name) == [i \in 1..Len(name) |-> IF name[i] = " " THEN "-" ELSE name[i]]

NamedAs(name) ==
    /\ pdfDoc[1].op = "title"
    /\ pdfDoc[1].text = Str_title \o name
    /\ pdfPc = "done" => pdfFile = Str_consent_form \o Hyphened(name) \o Str_pdf

StoredName ==
    LET data == submissions[1].submission_data IN
    data[CHOOSE i \in 1..Len(data) : data[i][1] = Str_Name][2]

Blank(c) == c \in {" ", "\t", "\n"}

WordStarts(s) == {i \in 1..Len(s) : ~Blank(s[i]) /\ (i = 1 \/ Blank(s[i - 1]))}

WordEnd(s, i) ==
    CHOOSE j \in i..Len(s) :
        /\ \A k \in i..j : ~Blank(s[k])
        /\ j = Len(s) \/ Blank(s[j + 1])

Word(s, k) ==
    LET start == Ordered(WordStarts(s))[k] IN SubSeq(s, start, WordEnd(s, start))

RECURSIVE WordsFrom(_, _)
WordsFrom(s, k) ==
    IF k > Cardinality(WordStarts(s)) THEN <<>>
    ELSE IF k = Cardinality(WordStarts(s)) THEN Word(s, k)
    ELSE Word(s, k) \o <<" ">> \o WordsFrom(s, k + 1)

\* C23: splitName gives first and last empty for a name that is absent,
\* empty or blank; the one word and an empty last for a name of one word;
\* otherwise the first word, and the other words joined by single spaces.
\* "Jane" gives Jane and ""; "Jane Q Public" gives Jane and "Q Public".
\* The exported row starts with these two.
C23_SplitName ==
    LET s == StrOrEmpty(StoredName)
        n == Cardinality(WordStarts(s))
        r == splitName(StoredName)
    IN /\ n = 0 => r = [first |-> <<>>, last |-> <<>>]
       /\ n = 1 => r = [first |-> Word(s, 1), last |-> <<>>]
       /\ n >= 2 => r = [first |-> Word(s, 1), last |-> WordsFrom(s, 2)]
       /\ s = <<"J", "a", "n", "e">> =>
             r = [first |-> <<"J", "a", "n", "e">>, last |-> <<>>]
       /\ s = Str_Jane_Q_Public =>
             r = [first |-> <<"J", "a", "n", "e">>,
                  last |-> <<"Q", " ", "P", "u", "b", "l", "i", "c">>]
       /\ csvFile # NoFile =>
             LET row == CsvRecords(csvFile.text)[2] IN
             row[1] = r.first /\ row[2] = r.last

\* an exported name of two words between runs of blanks
C23_Witness ==
    /\ csvFile # NoFile
    /\ StoredName = <<" ", "a", "\t", "b">>

C23_WitnessBlank ==
    csvFile # NoFile /\ StoredName = <<" ", "\t">>

SubsFetchInFlight ==
    \/ \E f \in Forms : <<"subs", f>> \in pending
    \/ syncPc = "refreshSubs"

\* C24: whenever no fetch of submissions is in flight, the list shown is
\* empty or the response for the form selected now, and it is empty when
\* no form is selected.
C24_ListOfSelectedForm ==
    ~SubsFetchInFlight =>
        /\ submissions # <<>> => (selectedForm # 0 /\ submissions = ServerSubs(selectedForm))
        /\ selectedForm = 0 => submissions = <<>>

SyncStep ==
    \/ \E res \in SyncResponses : SyncPostOk(res)
    \/ \E err \in AxiosErrors : SyncPostFail(err)
    \/ \E o \in SubsOutcomes : SyncSubsSettle(o)
    \/ \E ok \in BOOLEAN : SyncStatsSettle(ok)

\* C25: a step of a sync started for one client, taken while another
\* client is selected, changes neither the sync result shown, nor the
\* client statistics, nor the submission list.
C25_SyncOfOtherClient ==
    [][(SyncStep /\ selectedClient # 0 /\ selectedClient # syncClient) =>
          /\ syncResult' = syncResult
          /\ clientStats' = clientStats
          /\ submissions' = submissions]_vars

\* C26: the cursor is between the top margin and the safe bottom margin
\* whenever a field begins, so every label is written there; an image is
\* placed only where its block of 40 ends within the margin; the document
\* moves on one page at a time, to the top margin; the title block is on
\* page 1 only.
C26_PageBreaks ==
    /\ pdfPc = "loop" => (pdfY >= TopMargin /\ pdfY <= SafeBottom)
    /\ \A k \in 1..Len(pdfDoc) :
          /\ pdfDoc[k].op = "label" =>
                (pdfDoc[k].y >= TopMargin /\ pdfDoc[k].y <= SafeBottom)
          /\ pdfDoc[k].op = "image" => pdfDoc[k].y + ImageBlock <= SafeBottom
          /\ pdfDoc[k].op \in {"title", "rule", "submitted"} =>
                (k <= 3 /\ pdfDoc[k].page = 1)
          /\ (k > 1 /\ pdfDoc[k].page # pdfDoc[k - 1].page) =>
                (pdfDoc[k].page = pdfDoc[k - 1].page + 1 /\ pdfDoc[k].y = TopMargin)
    /\ pdfPage = (IF pdfDoc = <<>> THEN 1 ELSE pdfDoc[Len(pdfDoc)].page)
          \/ (pdfPage = pdfDoc[Len(pdfDoc)].page + 1 /\ pdfY = TopMargin)

\* a finished document with a label and an image at the top of page 2
C26_Witness ==
    /\ pdfPc = "done"
    /\ \E k \in 1..Len(pdfDoc) :
          pdfDoc[k].op = "label" /\ pdfDoc[k].page = 2 /\ pdfDoc[k].y = TopMargin
    /\ \E k \in 1..Len(pdfDoc) :
          pdfDoc[k].op = "image" /\ pdfDoc[k].page = 2

LoadingFetchInFlight ==
    \/ \E c \in Clients : <<"forms", c>> \in pending
    \/ SubsFetchInFlight

\* C27: the loading indicator is true whenever a fetch of forms or of
\* submissions is in flight, and false when none is.
C27_LoadingWhileFetching ==
    loading <=> LoadingFetchInFlight

\* the part of C27 that holds: no fetch in flight, no indicator
C27_IdleNotLoading ==
    ~LoadingFetchInFlight => ~loading

\* every request of a sync settles: while handleSync awaits the POST or a
\* refresh, the request runs to completion or to failure
SyncFairSpec ==
    /\ DashSpec
    /\ WF_syncPc(syncPc # "idle" /\ SyncStep)

\* C28: syncing is true exactly from the start of handleSync until the sync
\* call and its refreshes have settled, every sync ends with syncing false
\* again whichever request succeeds or fails, and handleSync runs only with
\* a client selected.
C28_SyncTerminates ==
    /\ [](syncing <=> syncPc # "idle")
    /\ []<>(~syncing)
    /\ [][syncCount' # syncCount => (selectedClient # 0 /\ syncing')]_vars

\* a sync whose POST succeeded and whose refresh of the list failed is over
C28_Witness ==
    /\ syncCount > 0
    /\ ~syncing
    /\ syncResultOf = syncCount
    /\ syncResult \in {SuccessResult(r) : r \in SyncResponses}
    /\ error # ""

\* the timestamp field of the row of a submission, as downloadCSV writes it
TimestampField(sub) == CsvVals(sub)[Len(CsvVals(sub))]

\* C29: the timestamp field of every row written by downloadCSV is the
\* same text under every ambient locale.
C29_TimestampLocaleIndependent ==
    [][(DownloadCSV /\ filteredSubmissions # <<>>) =>
          \A i \in 1..Len(filteredSubmissions) : \A loc \in Locales :
              TimestampField(filteredSubmissions[i])
                  = toLocaleString(filteredSubmissions[i].submitted_at, tzOffset, loc)]_vars

\* a is b with some elements left out, the others in the order of b
IsSubsequence(a, b) ==
    \E f \in [1..Len(a) -> 1..Len(b)] :
        /\ \A i, j \in 1..Len(a) : i < j => f[i] < f[j]
        /\ \A i \in 1..Len(a) : a[i] = b[f[i]]

\* C30: a change of the date filter, the schema read from the list, a CSV
\* export, the ordering of the consent fields and a PDF generation leave
\* the stored list and the submission of the PDF as they were received, and
\* the filtered list is a subsequence of the stored list, in its order.
C30_RecordsNotMutated ==
    /\ [][submissions' = submissions /\ pdfSub' = pdfSub]_vars
    /\ [](IsSubsequence(filteredSubmissions, submissions))

\* a filter that keeps one of two submissions, the export written, and a
\* PDF saved whose fields were put in another order than the stored one
C30_Witness ==
    /\ Len(submissions) = 2
    /\ Len(filteredSubmissions) = 1
    /\ dataKeys # <<>>
    /\ csvFile # NoFile
    /\ pdfPc = "done"
    /\ pdfEntries # pdfSub.submission_data

====
